---------------------------- MODULE Spec2Model ----------------------------
(***************************************************************************)
(* Model of the survey dashboard's data-quality routines                   *)
(* (src/data_analysis.py) and of the dashboard script that calls them      *)
(* (src/main.py, src/data_loader.py).                                      *)
(*                                                                         *)
(* A DataFrame is a record [cols, index, rows]: the ordered column names,  *)
(* the row labels (a RangeIndex 0..n-1 when built from records) and the    *)
(* rows, each a function from column name to cell.  Columns are of object  *)
(* dtype, as pandas builds them from the JSON records of the survey API:   *)
(* a cell is a string or NaN until a routine converts it.                  *)
(*                                                                         *)
(* Strings are sequences of one-character strings, so that stripping,      *)
(* lower-casing, parsing and pattern search are computed, not assumed.     *)
(* Timestamps have a resolution of one minute.  Quantiles and fences are   *)
(* exact rationals kept as scaled integers (x4 and x8).                    *)
(***************************************************************************)
EXTENDS Integers, Sequences, FiniteSets, TLC

(***************************************************************************)
(* Bounds of the model.                                                    *)
(***************************************************************************)
MaxOutlierRows == 5
MaxRows == 2
MaxRules == 2

(***************************************************************************)
(* Cells.                                                                  *)
(***************************************************************************)
\* A Python str that is no timestamp.
Str(s) == [tag |-> "str", s |-> s, n |-> 0, off |-> 0]
\* An ISO-8601 timestamp string: wall-clock minute n, UTC offset off minutes.
Iso(wall, off) == [tag |-> "iso", s |-> <<>>, n |-> wall, off |-> off]
\* A float.
Num(n) == [tag |-> "float", s |-> <<>>, n |-> n, off |-> 0]
\* A timezone-aware (UTC) datetime64 at instant n.
DtUTC(n) == [tag |-> "datetime_utc", s |-> <<>>, n |-> n, off |-> 0]
\* A timezone-naive datetime64 with wall-clock minute n.
Dt(n) == [tag |-> "datetime", s |-> <<>>, n |-> n, off |-> 0]
NaN == [tag |-> "nan", s |-> <<>>, n |-> 0, off |-> 0]
NaT == [tag |-> "nat", s |-> <<>>, n |-> 0, off |-> 0]

isna(c) == c.tag \in {"nan", "nat"}

(***************************************************************************)
(* DataFrames.                                                             *)
(***************************************************************************)
None == <<>>

SeqsUpTo(S, n) == UNION {[1..k -> S] : k \in 0..n}

RangeIndex(n) == [i \in 1..n |-> i - 1]

DataFrame(cols, rows) ==
    [cols |-> cols, index |-> RangeIndex(Len(rows)), rows |-> rows]

EmptyFrame == DataFrame(<<>>, <<>>)

Columns(df) == {df.cols[i] : i \in DOMAIN df.cols}

\* df[col]: the column as a sequence of cells, aligned with df.index.
Column(df, col) == [i \in DOMAIN df.rows |-> df.rows[i][col]]

\* df[col] = values: assignment in place; a new column is appended.
SetColumn(df, col, values) ==
    [cols  |-> IF col \in Columns(df) THEN df.cols ELSE Append(df.cols, col),
     index |-> df.index,
     rows  |-> [i \in DOMAIN df.rows |->
                  [c \in Columns(df) \cup {col} |->
                      IF c = col THEN values[i] ELSE df.rows[i][c]]]]

\* The positions of a boolean mask that are TRUE, in order.
RECURSIVE SelectPositions(_, _)
SelectPositions(mask, i) ==
    IF i > Len(mask) THEN <<>>
    ELSE (IF mask[i] THEN <<i>> ELSE <<>>) \o SelectPositions(mask, i + 1)

\* df[mask]: the rows whose mask entry is TRUE, labels and order kept.
BooleanIndex(df, mask) ==
    LET pos == SelectPositions(mask, 1)
    IN  [cols  |-> df.cols,
         index |-> [k \in DOMAIN pos |-> df.index[pos[k]]],
         rows  |-> [k \in DOMAIN pos |-> df.rows[pos[k]]]]

(***************************************************************************)
(* Strings.                                                                *)
(***************************************************************************)
Whitespace == {" "}

DigitVal == ("0" :> 0) @@ ("1" :> 1) @@ ("2" :> 2) @@ ("3" :> 3) @@ ("4" :> 4)
            @@ ("5" :> 5) @@ ("6" :> 6) @@ ("7" :> 7) @@ ("8" :> 8) @@ ("9" :> 9)

RECURSIVE lstrip(_)
lstrip(s) ==
    IF s # <<>> /\ Head(s) \in Whitespace THEN lstrip(Tail(s)) ELSE s

RECURSIVE rstrip(_)
rstrip(s) ==
    IF s # <<>> /\ s[Len(s)] \in Whitespace
    THEN rstrip(SubSeq(s, 1, Len(s) - 1)) ELSE s

\* Series.str.strip(): NaN for a cell that is no str.
str_strip(c) == IF c.tag = "str" THEN Str(lstrip(rstrip(c.s))) ELSE NaN

RECURSIVE DecimalValue(_)
DecimalValue(s) ==
    IF s = <<>> THEN 0
    ELSE 10 * DecimalValue(SubSeq(s, 1, Len(s) - 1)) + DigitVal[s[Len(s)]]

\* pd.to_numeric(errors='coerce') of one cell: a string of decimal digits is
\* its value; the empty string, any other string and NaN are NaN.
to_numeric(c) ==
    IF /\ c.tag = "str"
       /\ c.s # <<>>
       /\ \A i \in DOMAIN c.s : c.s[i] \in DOMAIN DigitVal
    THEN Num(DecimalValue(c.s))
    ELSE IF c.tag = "float" THEN c ELSE NaN

(***************************************************************************)
(* identify_outliers (src/data_analysis.py).                               *)
(***************************************************************************)
\* The values of a numeric column that are not NaN, in row order.
RECURSIVE dropna_values(_)
dropna_values(cells) ==
    IF cells = <<>> THEN <<>>
    ELSE (IF isna(Head(cells)) THEN <<>> ELSE <<Head(cells).n>>)
         \o dropna_values(Tail(cells))

RECURSIVE InsertSorted(_, _)
InsertSorted(x, s) ==
    IF s = <<>> THEN <<x>>
    ELSE IF x <= Head(s) THEN <<x>> \o s
    ELSE <<Head(s)>> \o InsertSorted(x, Tail(s))

RECURSIVE Sorted(_)
Sorted(s) == IF s = <<>> THEN <<>> ELSE InsertSorted(Head(s), Sorted(Tail(s)))

\* Series.quantile(k/4), k in 1..3, times 4; None (NaN) when no value is left
\* after dropping NaN.  Linear interpolation: the position is (n-1)*k/4 among
\* the order statistics, counted from 0.
quantile_lower_x4(cells, k) ==
    LET s == Sorted(dropna_values(cells))
        n == Len(s)
    IN  IF n = 0 THEN None ELSE <<4 * s[(((n - 1) * k) \div 4) + 1]>>

quantile_x4(cells, k) ==
    LET s    == Sorted(dropna_values(cells))
        n    == Len(s)
        pos4 == (n - 1) * k
        lo   == (pos4 \div 4) + 1
        frac4 == pos4 % 4
    IN  IF n = 0 THEN None
        ELSE IF frac4 = 0 THEN <<4 * s[lo]>>
        ELSE <<4 * s[lo] + frac4 * (s[lo + 1] - s[lo])>>

\* pd.to_numeric(df[column].str.strip(), errors='coerce')
numeric_data(df, column) ==
    [i \in DOMAIN df.rows |-> to_numeric(str_strip(df.rows[i][column]))]

\* Q1, Q3 and IQR times 4, and the bounds times 8; None when NaN.
Q1_x4(cells) == quantile_x4(cells, 1)
Q3_x4(cells) == quantile_x4(cells, 3)
IQR_x4(cells) ==
    IF Q1_x4(cells) = None THEN None ELSE <<Q3_x4(cells)[1] - Q1_x4(cells)[1]>>
lower_bound_x8(cells) ==
    IF Q1_x4(cells) = None THEN None
    ELSE <<2 * Q1_x4(cells)[1] - 3 * IQR_x4(cells)[1]>>
upper_bound_x8(cells) ==
    IF Q1_x4(cells) = None THEN None
    ELSE <<2 * Q3_x4(cells)[1] + 3 * IQR_x4(cells)[1]>>

\* (numeric_data < lower_bound) | (numeric_data > upper_bound): a comparison
\* with NaN on either side is False.
outlier_mask_inclusive(cells) ==
    LET lower_bound == lower_bound_x8(cells)
        upper_bound == upper_bound_x8(cells)
    IN  [i \in DOMAIN cells |->
            /\ ~isna(cells[i])
            /\ lower_bound # None
            /\ \/ 8 * cells[i].n <= lower_bound[1]
               \/ 8 * cells[i].n >= upper_bound[1]]

outlier_mask(cells) ==
    LET lower_bound == lower_bound_x8(cells)
        upper_bound == upper_bound_x8(cells)
    IN  [i \in DOMAIN cells |->
            /\ ~isna(cells[i])
            /\ lower_bound # None
            /\ \/ 8 * cells[i].n < lower_bound[1]
               \/ 8 * cells[i].n > upper_bound[1]]

\* The call's outcome and the DataFrame it returns (a copy: df is not touched).
identify_outliers(df, column) ==
    IF column \notin Columns(df)
    THEN [outcome |-> "KeyError", err |-> column, result |-> EmptyFrame]
    ELSE [outcome |-> "ok", err |-> "",
          result  |-> BooleanIndex(df, outlier_mask(numeric_data(df, column)))]

(***************************************************************************)
(* filter_short_surveys (src/data_analysis.py).                            *)
(***************************************************************************)
to_datetime_strings_only(c) ==
    IF c.tag = "iso" THEN DtUTC(c.n - c.off) ELSE NaT

\* pd.to_datetime(errors='coerce', utc=True) of one cell of a timestamp
\* column (a string, NaN, or a datetime left by an earlier call): a stamp
\* with an offset becomes its UTC instant, a naive datetime is taken as UTC,
\* and whatever does not parse becomes NaT.
to_datetime(c) ==
    IF c.tag = "iso" THEN DtUTC(c.n - c.off)
    ELSE IF c.tag \in {"datetime", "datetime_utc"} THEN DtUTC(c.n)
    ELSE NaT

\* Series.dt.tz_convert(None): the UTC wall clock, the zone dropped.
tz_convert_None(c) == IF c.tag = "datetime_utc" THEN Dt(c.n) ELSE c

Abs(x) == IF x < 0 THEN -x ELSE x

\* abs((end - start).dt.total_seconds() / 60.0), in minutes; NaN if either
\* end is NaT.
duration(s, e) == IF isna(s) \/ isna(e) THEN NaN ELSE Num(Abs(e.n - s.n))

\* The literal of `df['duration'] < 20`.
ShortSurveyMinutes == 20

short_mask_inclusive(cells) ==
    [i \in DOMAIN cells |-> ~isna(cells[i]) /\ cells[i].n <= ShortSurveyMinutes]

short_mask(cells) ==
    [i \in DOMAIN cells |-> ~isna(cells[i]) /\ cells[i].n < ShortSurveyMinutes]

isna_any(cells) == \E i \in DOMAIN cells : isna(cells[i])

\* Series.isna().all(): True of an empty Series.
isna_all(cells) == \A i \in DOMAIN cells : isna(cells[i])

RECURSIVE KeepColumns(_, _)
KeepColumns(cols, keep) ==
    IF cols = <<>> THEN <<>>
    ELSE (IF Head(cols) \in keep THEN <<Head(cols)>> ELSE <<>>)
         \o KeepColumns(Tail(cols), keep)

dropna_columns_any(df) ==
    LET keep == {c \in Columns(df) : \A i \in DOMAIN df.rows : ~isna(df.rows[i][c])}
    IN  [cols  |-> KeepColumns(df.cols, keep),
         index |-> df.index,
         rows  |-> [i \in DOMAIN df.rows |-> [c \in keep |-> df.rows[i][c]]]]

\* DataFrame.dropna(axis=1, how='all'): a column stays when it counts at
\* least one value that is not NA; with no rows no column does.
dropna_columns(df) ==
    LET keep == {c \in Columns(df) : \E i \in DOMAIN df.rows : ~isna(df.rows[i][c])}
    IN  [cols  |-> KeepColumns(df.cols, keep),
         index |-> df.index,
         rows  |-> [i \in DOMAIN df.rows |-> [c \in keep |-> df.rows[i][c]]]]

\* The call's outcome, the caller's DataFrame as the call leaves it (the
\* assignments of lines 43-44, 53-54 and 57 are made on df itself), and the
\* DataFrame returned.
filter_short_surveys(df, start_column, end_column) ==
    IF start_column \notin Columns(df) \/ end_column \notin Columns(df)
    THEN [outcome |-> "ValueError: not found", err |-> "", df |-> df,
          result |-> EmptyFrame]
    ELSE
    LET start_utc == [i \in DOMAIN df.rows |-> to_datetime(df.rows[i][start_column])]
        end_utc   == IF end_column = start_column
                     THEN [i \in DOMAIN df.rows |-> to_datetime(start_utc[i])]
                     ELSE [i \in DOMAIN df.rows |-> to_datetime(df.rows[i][end_column])]
        df2       == SetColumn(SetColumn(df, start_column, start_utc),
                               end_column, end_utc)
    IN  IF isna_all(Column(df2, start_column))
        THEN [outcome |-> "ValueError: could not be converted",
              err |-> start_column, df |-> df2, result |-> EmptyFrame]
        ELSE IF isna_all(Column(df2, end_column))
        THEN [outcome |-> "ValueError: could not be converted",
              err |-> end_column, df |-> df2, result |-> EmptyFrame]
        ELSE
        LET start_naive == [i \in DOMAIN df.rows |->
                               tz_convert_None(df2.rows[i][start_column])]
            end_naive   == IF end_column = start_column
                           THEN [i \in DOMAIN df.rows |-> tz_convert_None(start_naive[i])]
                           ELSE [i \in DOMAIN df.rows |->
                                    tz_convert_None(df2.rows[i][end_column])]
            df4 == SetColumn(SetColumn(df2, start_column, start_naive),
                             end_column, end_naive)
            df5 == SetColumn(df4, "duration",
                       [i \in DOMAIN df.rows |->
                           duration(df4.rows[i][start_column], df4.rows[i][end_column])])
            short_surveys == BooleanIndex(df5, short_mask(Column(df5, "duration")))
        IN  [outcome |-> "ok", err |-> "", df |-> df5,
             result |-> dropna_columns(short_surveys)]

(***************************************************************************)
(* check_data_consistency (src/data_analysis.py).                          *)
(***************************************************************************)
LowerOf == ("A" :> "a") @@ ("B" :> "b") @@ ("C" :> "c") @@ ("Y" :> "y")

lower(s) == [i \in DOMAIN s |-> IF s[i] \in DOMAIN LowerOf THEN LowerOf[s[i]] ELSE s[i]]

\* Series.str.lower(): NaN for a cell that is no str.
str_lower(c) == IF c.tag = "str" THEN Str(lower(c.s)) ELSE NaN

\* re.search(pat, s) for a pattern of literal characters and '.', which
\* stands for any one character: Series.str.contains takes its pattern as a
\* regular expression (regex=True is its default).
re_search(pat, s) ==
    \E off \in 0..(Len(s) - Len(pat)) :
        \A j \in DOMAIN pat : pat[j] = "." \/ s[off + j] = pat[j]

\* Series.str.contains(pat, na=False) of one cell.
str_contains(c, pat) == c.tag = "str" /\ re_search(pat, c.s)

\* df[q1] == a1, elementwise: False for NaN.
eq(c, a1) == c.tag = "str" /\ c.s = a1

\* len(inconsistent_rows) for one rule whose columns exist.
count_inconsistent(df, rule) ==
    Len(SelectPositions(
        [i \in DOMAIN df.rows |->
            /\ eq(df.rows[i][rule.question_1], rule.expected_answer_1)
            /\ str_contains(str_lower(df.rows[i][rule.question_2]),
                            lower(rule.invalid_answer_2_contains))], 1))

\* error_counts[label] = count: a dict keeps a key where it first went in.
dict_append(d, label, count) == Append(d, <<label, count>>)

dict_set(d, label, count) ==
    IF \E i \in DOMAIN d : d[i][1] = label
    THEN [i \in DOMAIN d |-> IF d[i][1] = label THEN <<label, count>> ELSE d[i]]
    ELSE Append(d, <<label, count>>)

\* The loop over rules from rule i on, error_counts so far in acc.  Indexing
\* a missing column raises KeyError out of the loop and out of the function.
RECURSIVE check_rules(_, _, _, _)
check_rules(df, rules, i, acc) ==
    IF i > Len(rules)
    THEN [outcome |-> "ok", err |-> "", error_counts |-> acc]
    ELSE IF rules[i].question_1 \notin Columns(df)
    THEN [outcome |-> "KeyError", err |-> rules[i].question_1, error_counts |-> <<>>]
    ELSE IF rules[i].question_2 \notin Columns(df)
    THEN [outcome |-> "KeyError", err |-> rules[i].question_2, error_counts |-> <<>>]
    ELSE check_rules(df, rules, i + 1,
             dict_set(acc, rules[i].error_label, count_inconsistent(df, rules[i])))

check_data_consistency(df, rules) == check_rules(df, rules, 1, <<>>)

(***************************************************************************)
(* load_dataset (src/data_loader.py).                                      *)
(***************************************************************************)
asset_uids == {"Data"}

\* fetched: the DataFrame built from what the survey API answers.
load_dataset_unset(option, fetched) == None

load_dataset(option, fetched) ==
    IF option \notin asset_uids THEN None ELSE <<fetched>>

(***************************************************************************)
(* The datasets and rules the model draws its inputs from.                 *)
(***************************************************************************)
OneColumn(col, cells) ==
    DataFrame(<<col>>, [i \in DOMAIN cells |-> (col :> cells[i])])

NumericCells ==
    {Str(<<"0">>), Str(<<" ", "1", " ">>), Str(<<"5">>), Str(<<"x">>), NaN}

OutlierDatasets ==
    {OneColumn("value", cells) : cells \in SeqsUpTo(NumericCells, MaxOutlierRows)}

\* The column 10, 12, 11, 13, 100, 9, 12 of the specification's example.
ExampleColumn ==
    OneColumn("value",
        <<Str(<<"1", "0">>), Str(<<"1", "2">>), Str(<<"1", "1">>),
          Str(<<"1", "3">>), Str(<<"1", "0", "0">>), Str(<<"9">>),
          Str(<<"1", "2">>)>>)

\* Start 01:40 UTC, written with offset +00:00 or +04:30, or unreadable.
StartCells == {Iso(100, 0), Iso(370, 270), Str(<<"x">>)}

\* End 15 minutes before the start (swapped), or 20 or 25 minutes after it.
EndCells == {Iso(85, 0), Iso(120, 0), Iso(125, 0), NaN}

SurveyRows ==
    {("start" :> s) @@ ("end" :> e) : s \in StartCells, e \in EndCells}

DurationDatasets ==
    {DataFrame(<<"start", "end">>, rows) : rows \in SeqsUpTo(SurveyRows, MaxRows)}

AnswerRows ==
    {("q1" :> Str(<<"Y">>)) @@ ("q2" :> b) :
        b \in {Str(<<"a", "B">>), Str(<<"c">>), NaN}}
    \cup {("q1" :> Str(<<"y">>)) @@ ("q2" :> Str(<<"a", "B">>))}

ConsistencyDatasets ==
    {DataFrame(<<"q1", "q2">>, rows) : rows \in SeqsUpTo(AnswerRows, MaxRows)}

\* Rules over the answer columns, and one that names a column no dataset has.
Rules ==
    {r \in [question_1 : {"q1", "q9"}, expected_answer_1 : {<<"Y">>},
            question_2 : {"q2"}, invalid_answer_2_contains : {<<"B">>, <<".">>},
            error_label : {"L1", "L2"}] :
        /\ r.question_1 = "q9" =>
              r.invalid_answer_2_contains = <<"B">> /\ r.error_label = "L1"
        /\ r.error_label = "L2" => r.invalid_answer_2_contains = <<"B">>}

RuleLists == SeqsUpTo(Rules, MaxRules)

\* Surveys of 15 or 25 minutes with a free-text note that may be missing.
AnnotatedRows ==
    {("start" :> Iso(100, 0)) @@ ("note" :> n) @@ ("end" :> e) :
        n \in {Str(<<"x">>), NaN}, e \in {Iso(85, 0), Iso(125, 0)}}

AnnotatedDatasets ==
    {DataFrame(<<"start", "note", "end">>, rows) :
        rows \in SeqsUpTo(AnnotatedRows, MaxRows)}

\* Surveys that were never given an end stamp.
NoEndColumn == OneColumn("start", <<Iso(100, 0)>>)

Datasets ==
    OutlierDatasets \cup {ExampleColumn} \cup DurationDatasets
        \cup {NoEndColumn} \cup AnnotatedDatasets \cup ConsistencyDatasets

\* What the survey API may answer: surveys with both stamps, surveys with no
\* end stamp at all, and no survey.
FetchedDatasets == DurationDatasets \cup {NoEndColumn, EmptyFrame}

(***************************************************************************)
(* State.                                                                  *)
(***************************************************************************)
VARIABLES
    dataset_load,        \* main.py's global: None or <<DataFrame>>
    data,                \* the DataFrame the current caller holds and passes
    rules,               \* the rule list a client of check_data_consistency holds
    last,                \* the last call of a data-quality routine
    pc,                  \* "client": a caller of data_analysis; else the script's place
    selected_option,     \* the sidebar's selection
    short_survey_count,  \* tracker's "Surveys < 30 mins" metric: None or <<n>>
    short_survey_data,   \* data_quality_review's table: None or <<DataFrame>>
    calls                \* main.py's functions entered in this run, in order

vars == <<dataset_load, data, rules, last, pc, selected_option, short_survey_count,
          short_survey_data, calls>>

NoCall ==
    [op |-> "none", arg |-> EmptyFrame, columns |-> <<>>, rules |-> <<>>,
     threshold |-> None, outcome |-> "none", err |-> "",
     result |-> EmptyFrame, error_counts |-> <<>>]

\* Either a client of data_analysis holding some dataset, or the dashboard
\* before a run of its script.
Init ==
    /\ dataset_load = None
    /\ \/ pc = "client" /\ data \in Datasets /\ rules = <<>>
       \/ pc = "client" /\ data \in ConsistencyDatasets /\ rules \in RuleLists
       \/ pc = "start" /\ data = EmptyFrame /\ rules = <<>>
    /\ last = NoCall
    /\ selected_option = "Home"
    /\ short_survey_count = None
    /\ short_survey_data = None
    /\ calls = <<>>

(***************************************************************************)
(* A client calls a routine on the DataFrame it holds.  Each routine is     *)
(* called on the datasets that hold the column it is about (the numeric    *)
(* column, the start stamp, the second question); the column names the     *)
(* call passes may still be missing from the dataset.                      *)
(***************************************************************************)
IdentifyOutliersCall(column) ==
    /\ pc = "client"
    /\ "value" \in Columns(data)
    /\ LET r == identify_outliers(data, column)
       IN  last' = [NoCall EXCEPT !.op = "identify_outliers", !.arg = data,
                       !.columns = <<column>>, !.outcome = r.outcome,
                       !.err = r.err, !.result = r.result]
    /\ UNCHANGED <<dataset_load, data, rules, pc, selected_option, short_survey_count,
                   short_survey_data, calls>>

\* threshold: None, or <<t>> when the caller passes a fourth argument; the
\* function takes three, so the call raises TypeError before its body runs.
FilterShortSurveysCall(threshold) ==
    /\ pc = "client"
    /\ "start" \in Columns(data)
    /\ IF threshold # None
       THEN /\ last' = [NoCall EXCEPT !.op = "filter_short_surveys", !.arg = data,
                          !.columns = <<"start", "end">>, !.threshold = threshold,
                          !.outcome = "TypeError"]
            /\ data' = data
       ELSE LET r == filter_short_surveys(data, "start", "end")
            IN  /\ last' = [NoCall EXCEPT !.op = "filter_short_surveys",
                              !.arg = data, !.columns = <<"start", "end">>,
                              !.outcome = r.outcome, !.err = r.err,
                              !.result = r.result]
                /\ data' = r.df
    /\ UNCHANGED <<dataset_load, rules, pc, selected_option, short_survey_count,
                   short_survey_data, calls>>

CheckDataConsistencyCall ==
    /\ pc = "client"
    /\ "q2" \in Columns(data)
    /\ LET r == check_data_consistency(data, rules)
       IN  last' = [NoCall EXCEPT !.op = "check_data_consistency", !.arg = data,
                       !.rules = rules, !.outcome = r.outcome, !.err = r.err,
                       !.error_counts = r.error_counts]
    /\ UNCHANGED <<dataset_load, data, rules, pc, selected_option, short_survey_count,
                   short_survey_data, calls>>

(***************************************************************************)
(* The dashboard script (src/main.py), one run per interaction.            *)
(***************************************************************************)
\* Lines 24-29 and 429-434: the global starts as None, the sidebar gives the
\* selection, and load_data runs unless the selection is "Home".  The fetch
\* inside load_dataset may raise, which ends the run with the global unset.
ScriptRun ==
    /\ pc = "start"
    /\ \E selected \in {"Home", "Data"} :
          /\ selected_option' = selected
          /\ IF selected # "Home"
             THEN /\ calls' = <<"load_data">>
                  /\ \/ /\ \E fetched \in FetchedDatasets :
                               dataset_load' = load_dataset(selected, fetched)
                        /\ pc' = "tab1"
                     \/ /\ selected \in asset_uids
                        /\ dataset_load' = None
                        /\ pc' = "done"
             ELSE /\ calls' = <<>>
                  /\ dataset_load' = None
                  /\ pc' = "tab1"
    /\ data' = EmptyFrame
    /\ rules' = <<>>
    /\ last' = NoCall
    /\ short_survey_count' = None
    /\ short_survey_data' = None

empty(df) == Len(df.cols) = 0 \/ Len(df.rows) = 0

\* tracker(), as far as the short-survey metric: the charts that follow it
\* read other columns of the copy.
tracker ==
    IF dataset_load # None /\ ~empty(dataset_load[1])
    THEN IF {"start", "end"} \subseteq Columns(dataset_load[1])
         THEN LET r == filter_short_surveys(dataset_load[1], "start", "end")
              IN  /\ last' = [NoCall EXCEPT !.op = "filter_short_surveys",
                                !.arg = dataset_load[1],
                                !.columns = <<"start", "end">>,
                                !.outcome = r.outcome, !.err = r.err,
                                !.result = r.result]
                  /\ data' = r.df
                  /\ IF r.outcome = "ok"
                     THEN /\ short_survey_count' = <<Len(r.result.rows)>>
                          /\ pc' = "tab2"
                     ELSE /\ short_survey_count' = None
                          /\ pc' = "done"
         ELSE /\ data' = dataset_load[1]
              /\ short_survey_count' = <<0>>
              /\ pc' = "tab2"
              /\ UNCHANGED last
    ELSE /\ pc' = "tab2"
         /\ UNCHANGED <<data, last, short_survey_count>>

\* Lines 431-435: the first tab.
Tab1 ==
    /\ pc = "tab1"
    /\ IF selected_option = "Home"
       THEN /\ pc' = "tab2"
            /\ UNCHANGED <<data, last, short_survey_count>>
       ELSE tracker
    /\ calls' = Append(calls, IF selected_option = "Home" THEN "home" ELSE "tracker")
    /\ UNCHANGED <<dataset_load, rules, selected_option, short_survey_data>>

\* data_quality_review(), with the location button not pressed.
data_quality_review ==
    IF dataset_load = None
    THEN /\ last' = [NoCall EXCEPT !.op = "data_quality_review",
                        !.outcome = "AttributeError"]
         /\ UNCHANGED <<data, short_survey_data>>
    ELSE IF {"start", "end"} \subseteq Columns(dataset_load[1])
    THEN LET r == filter_short_surveys(dataset_load[1], "start", "end")
         IN  /\ last' = [NoCall EXCEPT !.op = "filter_short_surveys",
                           !.arg = dataset_load[1],
                           !.columns = <<"start", "end">>,
                           !.outcome = r.outcome, !.err = r.err,
                           !.result = r.result]
             /\ data' = r.df
             /\ short_survey_data' =
                    IF r.outcome = "ok" THEN <<r.result>> ELSE None
    ELSE /\ data' = dataset_load[1]
         /\ UNCHANGED <<last, short_survey_data>>

\* Lines 437-441: the second tab; the run ends after it.
Tab2 ==
    /\ pc = "tab2"
    /\ IF selected_option = "Home"
       THEN UNCHANGED <<data, last, short_survey_data, calls>>
       ELSE /\ data_quality_review
            /\ calls' = Append(calls, "data_quality_review")
    /\ pc' = "done"
    /\ UNCHANGED <<dataset_load, rules, selected_option, short_survey_count>>

\* The next interaction reruns the script from its first line.
Rerun ==
    /\ pc = "done"
    /\ pc' = "start"
    /\ dataset_load' = None
    /\ data' = EmptyFrame
    /\ last' = NoCall
    /\ selected_option' = "Home"
    /\ short_survey_count' = None
    /\ short_survey_data' = None
    /\ calls' = <<>>
    /\ UNCHANGED rules

Next ==
    \/ \E column \in {"value", "age"} : IdentifyOutliersCall(column)
    \/ \E threshold \in {None, <<30>>} : FilterShortSurveysCall(threshold)
    \/ CheckDataConsistencyCall
    \/ ScriptRun
    \/ Tab1
    \/ Tab2
    \/ Rerun

Spec == Init /\ [][Next]_vars

(***************************************************************************)
(* Properties.                                                             *)
(***************************************************************************)
Returned(op) == last.op = op /\ last.outcome = "ok"

\* The row positions of df whose labels are those of the rows of result.
PositionsOf(result) == {result.index[k] + 1 : k \in DOMAIN result.index}

\* result holds exactly the rows of df at the positions in sel, in df's
\* order, each with the cells it has in df.
IsSelection(result, df, sel) ==
    /\ result.cols = df.cols
    /\ Len(result.rows) = Cardinality(sel)
    /\ PositionsOf(result) = sel
    /\ \A k \in DOMAIN result.rows :
          /\ result.rows[k] = df.rows[result.index[k] + 1]
          /\ \A j \in DOMAIN result.rows : j < k => result.index[j] < result.index[k]

\* The j-th smallest (j from 1) of the parsed values at positions P of cells:
\* the value with fewer than j values below it and at least j not above it.
OrderStatistic(cells, P, j) ==
    CHOOSE v \in {cells[i].n : i \in P} :
        /\ Cardinality({i \in P : cells[i].n < v}) < j
        /\ Cardinality({i \in P : cells[i].n <= v}) >= j

\* Four times the quantile k/4 of those values, by linear interpolation at
\* position (n-1)*k/4.
InterpolatedQuantile_x4(cells, P, k) ==
    LET n  == Cardinality(P)
        lo == (((n - 1) * k) \div 4) + 1
        r  == ((n - 1) * k) % 4
    IN  IF r = 0 THEN 4 * OrderStatistic(cells, P, lo)
        ELSE (4 - r) * OrderStatistic(cells, P, lo)
                 + r * OrderStatistic(cells, P, lo + 1)

\* The positions of cells strictly outside [Q1 - 1.5 IQR, Q3 + 1.5 IQR].
StrictlyOutsideFences(cells) ==
    LET P == {i \in DOMAIN cells : ~isna(cells[i])}
    IN  IF P = {} THEN {}
        ELSE LET q1 == InterpolatedQuantile_x4(cells, P, 1)
                 q3 == InterpolatedQuantile_x4(cells, P, 3)
             IN  {i \in P : \/ 8 * cells[i].n < 2 * q1 - 3 * (q3 - q1)
                            \/ 8 * cells[i].n > 2 * q3 + 3 * (q3 - q1)}

\* C1: identify_outliers returns exactly the rows whose parsed value lies
\* strictly below Q1 - 1.5*IQR or strictly above Q3 + 1.5*IQR, the quartiles
\* taken over the values that parse; a row on a fence and a row whose value
\* does not parse are not returned, and the rows come back as they were.
C1_OutliersExactlyOutsideFences ==
    Returned("identify_outliers") =>
        IsSelection(last.result, last.arg,
            StrictlyOutsideFences(numeric_data(last.arg, last.columns[1])))

\* C1 witness: a call that returns a row above the upper fence and leaves
\* behind both a row inside the fences and a row whose value does not parse.
C1_Witness ==
    /\ Returned("identify_outliers")
    /\ LET cells == numeric_data(last.arg, last.columns[1])
       IN  /\ \E k \in DOMAIN last.result.rows :
                 8 * cells[last.result.index[k] + 1].n > upper_bound_x8(cells)[1]
           /\ \E i \in DOMAIN cells : isna(cells[i])
           /\ \E i \in DOMAIN cells :
                 ~isna(cells[i]) /\ i \notin PositionsOf(last.result)

(***************************************************************************)
(* Durations, read off the dataset as it was passed.                       *)
(***************************************************************************)
\* A cell that stands for a point in time, and that point in minutes UTC.
Parses(c) == c.tag \in {"iso", "datetime", "datetime_utc"}
Instant(c) == IF c.tag = "iso" THEN c.n - c.off ELSE c.n

HasDuration(row) == Parses(row["start"]) /\ Parses(row["end"])
Minutes(row) == Abs(Instant(row["end"]) - Instant(row["start"]))

\* The positions of df's rows that took less than limit minutes.
ShorterThan(df, limit) ==
    {i \in DOMAIN df.rows : HasDuration(df.rows[i]) /\ Minutes(df.rows[i]) < limit}

HasStampColumns(df) == {"start", "end"} \subseteq Columns(df)

Increasing(s) == \A j, k \in DOMAIN s : j < k => s[j] < s[k]

\* C2 as claimed: the call takes a threshold, 20 when none is passed, and
\* returns exactly the rows whose duration is below the threshold passed.
C2_ThresholdAsPassed ==
    (/\ last.op = "filter_short_surveys"
     /\ HasStampColumns(last.arg)
     /\ \E i \in DOMAIN last.arg.rows : Parses(last.arg.rows[i]["start"])
     /\ \E i \in DOMAIN last.arg.rows : Parses(last.arg.rows[i]["end"]))
    => /\ last.outcome = "ok"
       /\ PositionsOf(last.result) =
             ShorterThan(last.arg,
                 IF last.threshold = None THEN 20 ELSE last.threshold[1])

\* C2 amended: filter_short_surveys takes no threshold (a fourth argument
\* raises TypeError); called with its three arguments it returns, in row
\* order, exactly the rows whose duration abs(end - start) is strictly less
\* than 20 minutes, and never a row whose start or end does not parse.
C2_ShortSurveysBelowTwenty ==
    /\ (last.op = "filter_short_surveys" /\ last.threshold # None)
          => last.outcome = "TypeError"
    /\ Returned("filter_short_surveys")
          => /\ last.threshold = None
             /\ PositionsOf(last.result) = ShorterThan(last.arg, 20)
             /\ Len(last.result.rows) = Cardinality(ShorterThan(last.arg, 20))
             /\ Increasing(last.result.index)
             /\ \A i \in PositionsOf(last.result) : HasDuration(last.arg.rows[i])

\* C2 witness: a call that returns a survey whose end precedes its start
\* (15 minutes apart) and leaves out one of exactly 20 minutes.
C2_Witness ==
    /\ Returned("filter_short_surveys")
    /\ \E i \in PositionsOf(last.result) :
          Instant(last.arg.rows[i]["end"]) < Instant(last.arg.rows[i]["start"])
    /\ \E i \in DOMAIN last.arg.rows :
          /\ HasDuration(last.arg.rows[i])
          /\ Minutes(last.arg.rows[i]) = 20
          /\ i \notin PositionsOf(last.result)

Routines == {"identify_outliers", "filter_short_surveys", "check_data_consistency"}

\* C3 as claimed: when a routine has returned or raised, the caller's
\* dataset is as it was passed: same columns, same value in every cell.
C3_NoRoutineMutatesItsInput ==
    last.op \in Routines => data = last.arg

\* The columns a call names: its column arguments and its rules' questions.
ReferencedColumns ==
    {last.columns[i] : i \in DOMAIN last.columns}
        \cup {last.rules[i].question_1 : i \in DOMAIN last.rules}
        \cup {last.rules[i].question_2 : i \in DOMAIN last.rules}

Count(error_counts, label) ==
    LET k == CHOOSE k \in DOMAIN error_counts : error_counts[k][1] = label
    IN  error_counts[k][2]

Labels(error_counts) == {error_counts[k][1] : k \in DOMAIN error_counts}

\* C4 as claimed: on a dataset of zero rows that has the columns the call
\* names, each routine returns without raising: zero rows, or a count of 0
\* under every rule's label.
C4_EmptyDatasetEmptyResult ==
    (/\ last.op \in Routines
     /\ last.threshold = None
     /\ Len(last.arg.rows) = 0
     /\ ReferencedColumns \subseteq Columns(last.arg))
    => /\ last.outcome = "ok"
       /\ Len(last.result.rows) = 0
       /\ \A i \in DOMAIN last.rules :
             /\ last.rules[i].error_label \in Labels(last.error_counts)
             /\ Count(last.error_counts, last.rules[i].error_label) = 0

(***************************************************************************)
(* Consistency rules, read off the dataset and the rule list as passed.    *)
(***************************************************************************)
\* sub occurs in s as it is written, character for character.
Contains(s, sub) ==
    \E off \in 0..(Len(s) - Len(sub)) : \A j \in DOMAIN sub : s[off + j] = sub[j]

\* The rows a rule is meant to count.
Inconsistent(df, rule) ==
    {i \in DOMAIN df.rows :
        /\ df.rows[i][rule.question_1].tag = "str"
        /\ df.rows[i][rule.question_1].s = rule.expected_answer_1
        /\ df.rows[i][rule.question_2].tag = "str"
        /\ Contains(lower(df.rows[i][rule.question_2].s),
                    lower(rule.invalid_answer_2_contains))}

Evaluable(df, rule) == {rule.question_1, rule.question_2} \subseteq Columns(df)

\* Rule i is the last of the list with its label.
LastWithLabel(rs, i) ==
    \A j \in DOMAIN rs : j > i => rs[j].error_label # rs[i].error_label

FirstIndex(rs, label) ==
    CHOOSE i \in DOMAIN rs :
        /\ rs[i].error_label = label
        /\ \A j \in DOMAIN rs : j < i => rs[j].error_label # label

LastIndex(rs, label) ==
    CHOOSE i \in DOMAIN rs : rs[i].error_label = label /\ LastWithLabel(rs, i)

\* C5 as claimed: the count reported under a rule's label is the number of
\* rows whose q1 value equals a1 exactly and whose q2 value, lower-cased,
\* contains the invalid substring lower-cased; an absent q2 never counts.
C5_CountsSubstringMatches ==
    Returned("check_data_consistency") =>
        \A i \in DOMAIN last.rules :
            LastWithLabel(last.rules, i) =>
                /\ last.rules[i].error_label \in Labels(last.error_counts)
                /\ Count(last.error_counts, last.rules[i].error_label)
                      = Cardinality(Inconsistent(last.arg, last.rules[i]))

\* C6 as claimed: a rule that names a missing column fails alone; the count
\* of every rule whose columns exist still reaches the caller.
C6_MissingColumnFailsOnlyThatRule ==
    last.op = "check_data_consistency" =>
        \A i \in DOMAIN last.rules :
            Evaluable(last.arg, last.rules[i]) =>
                /\ last.outcome # "KeyError"
                /\ last.rules[i].error_label \in Labels(last.error_counts)

\* C7: the mapping check_data_consistency returns has one entry per distinct
\* label of the rule list, in the order the labels first occur in the list,
\* a label with a count of zero included; an entry holds the count of the
\* last rule with its label.
C7_OneEntryPerLabelLastWins ==
    Returned("check_data_consistency") =>
        LET ec == last.error_counts
            rs == last.rules
        IN  /\ Labels(ec) = {rs[i].error_label : i \in DOMAIN rs}
            /\ Len(ec) = Cardinality(Labels(ec))
            /\ \A j, k \in DOMAIN ec :
                  j < k => FirstIndex(rs, ec[j][1]) < FirstIndex(rs, ec[k][1])
            /\ \A k \in DOMAIN ec :
                  ec[k][2] = count_inconsistent(last.arg, rs[LastIndex(rs, ec[k][1])])

\* C7 witness: two rules share a label, the earlier counts a row and the
\* later counts none, and the call has returned.
C7_Witness ==
    /\ Returned("check_data_consistency")
    /\ Len(last.rules) = 2
    /\ last.rules[1].error_label = last.rules[2].error_label
    /\ count_inconsistent(last.arg, last.rules[1]) > 0
    /\ count_inconsistent(last.arg, last.rules[2]) = 0

\* C8: called with its three arguments on a dataset that has both columns,
\* filter_short_surveys raises the conversion error exactly when no value of
\* the start column parses or no value of the end column parses, and names
\* the start column if it is one such, else the end column; otherwise it
\* returns, and a row with an endpoint that does not parse is only left out.
C8_ConversionErrorIffWholeColumnFails ==
    (/\ last.op = "filter_short_surveys"
     /\ last.threshold = None
     /\ HasStampColumns(last.arg))
    => LET rows    == last.arg.rows
           noStart == \A i \in DOMAIN rows : ~Parses(rows[i]["start"])
           noEnd   == \A i \in DOMAIN rows : ~Parses(rows[i]["end"])
       IN  /\ last.outcome = "ValueError: could not be converted"
                 <=> (noStart \/ noEnd)
           /\ noStart => last.err = "start"
           /\ (~noStart /\ noEnd) => last.err = "end"
           /\ ~(noStart \/ noEnd) =>
                 /\ last.outcome = "ok"
                 /\ \A i \in PositionsOf(last.result) : HasDuration(rows[i])

\* C8 witness: a call on two rows, one with a start that does not parse,
\* that returns the other row and raises nothing.
C8_Witness ==
    /\ Returned("filter_short_surveys")
    /\ Len(last.arg.rows) = 2
    /\ ~Parses(last.arg.rows[1]["start"])
    /\ PositionsOf(last.result) = {2}

\* C9 as claimed: the metric "Surveys < 30 mins" counts, and the table
\* "Surveys completed in less than 30 minutes" lists, exactly the loaded
\* surveys whose start and end are less than 30 minutes apart.
C9_ShowsSurveysUnderThirtyMinutes ==
    /\ (short_survey_count # None /\ HasStampColumns(dataset_load[1]))
          => short_survey_count[1] = Cardinality(ShorterThan(dataset_load[1], 30))
    /\ short_survey_data # None
          => PositionsOf(short_survey_data[1]) = ShorterThan(dataset_load[1], 30)

ExampleCall ==
    /\ Returned("identify_outliers")
    /\ last.arg = ExampleColumn
    /\ last.columns = <<"value">>

ExampleValues == numeric_data(ExampleColumn, "value")

\* C10 as claimed: on the column 10, 12, 11, 13, 100, 9, 12 the detector
\* obtains Q1 = 10, Q3 = 12.5, IQR = 2.5 and the fences 6.25 and 16.25, and
\* returns the row of 100 alone.
C10_ExampleQuartilesAsClaimed ==
    ExampleCall =>
        /\ Q1_x4(ExampleValues) = <<40>>
        /\ Q3_x4(ExampleValues) = <<50>>
        /\ IQR_x4(ExampleValues) = <<10>>
        /\ lower_bound_x8(ExampleValues) = <<50>>
        /\ upper_bound_x8(ExampleValues) = <<130>>
        /\ last.result.index = <<4>>

\* C10 amended: on the column 10, 12, 11, 13, 100, 9, 12 the detector, with
\* linear-interpolation quantiles at position (n-1)*p, obtains Q1 = 10.5,
\* Q3 = 12.5, IQR = 2 and the fences 7.5 and 15.5, and returns the row of
\* 100 and no other row.
C10_ExampleQuartiles ==
    ExampleCall =>
        /\ Q1_x4(ExampleValues) = <<42>>
        /\ Q3_x4(ExampleValues) = <<50>>
        /\ IQR_x4(ExampleValues) = <<8>>
        /\ lower_bound_x8(ExampleValues) = <<60>>
        /\ upper_bound_x8(ExampleValues) = <<124>>
        /\ last.result.index = <<4>>
        /\ last.result.rows = <<("value" :> Str(<<"1", "0", "0">>))>>

\* C10 witness: the detector has returned from a call on the example column.
C10_Witness == ExampleCall /\ Len(last.result.rows) = 1

(***************************************************************************)
(* The shape of what filter_short_surveys returns.                         *)
(***************************************************************************)
\* The columns of the dataset once the call has added "duration" to it.
WithDuration(cols) ==
    IF \E k \in DOMAIN cols : cols[k] = "duration" THEN cols
    ELSE Append(cols, "duration")

PlaceIn(cols, c) == CHOOSE k \in DOMAIN cols : cols[k] = c

\* Column c holds a value in some row at the positions sel: the stamps and
\* the duration of a selected row always do.
HoldsValue(df, sel, c) ==
    IF c \in {"start", "end", "duration"} THEN sel # {}
    ELSE \E i \in sel : ~isna(df.rows[i][c])

\* result keeps the selected rows in row order, has exactly the columns that
\* hold a value in a selected row, in their order, and gives each row its
\* duration and its other cells as passed.
IsShortSurveyTable(result, df, sel) ==
    LET cols == WithDuration(df.cols)
    IN  /\ PositionsOf(result) = sel
        /\ Len(result.rows) = Cardinality(sel)
        /\ Increasing(result.index)
        /\ Columns(result) =
              {cols[k] : k \in {k \in DOMAIN cols : HoldsValue(df, sel, cols[k])}}
        /\ Len(result.cols) = Cardinality(Columns(result))
        /\ \A j, k \in DOMAIN result.cols :
              j < k => PlaceIn(cols, result.cols[j]) < PlaceIn(cols, result.cols[k])
        /\ \A k \in DOMAIN result.rows :
              LET i == result.index[k] + 1
              IN  /\ DOMAIN result.rows[k] = Columns(result)
                  /\ result.rows[k]["duration"] = Num(Minutes(df.rows[i]))
                  /\ \A c \in Columns(result) \ {"start", "end", "duration"} :
                        result.rows[k][c] = df.rows[i][c]

\* C11 as claimed: whenever the call succeeds, also when no row is under
\* the threshold, the returned dataset includes the "duration" column, keeps
\* the selected rows in row order and drops only columns that are absent in
\* every selected row.
C11_AlwaysIncludesDuration ==
    Returned("filter_short_surveys") =>
        /\ "duration" \in Columns(last.result)
        /\ Increasing(last.result.index)
        /\ \A c \in Columns(last.arg) \ Columns(last.result) :
              \A i \in PositionsOf(last.result) : isna(last.arg.rows[i][c])

\* C11 amended: whenever the call succeeds, the returned dataset keeps the
\* selected rows in original row order and drops exactly the columns that
\* are absent in every selected row; it includes the added "duration"
\* column when at least one row is selected, and when no row is under the
\* threshold it has no rows and no columns, "duration" included.
C11_DurationUnlessNothingSelected ==
    Returned("filter_short_surveys") =>
        /\ IsShortSurveyTable(last.result, last.arg, ShorterThan(last.arg, 20))
        /\ "duration" \in Columns(last.result) <=> Len(last.result.rows) > 0
        /\ Len(last.result.rows) = 0 => last.result.cols = <<>>

\* C11 witness: a call returns a short survey with its duration and without
\* the note column, which only a longer survey had filled in.
C11_Witness ==
    /\ Returned("filter_short_surveys")
    /\ Len(last.result.rows) > 0
    /\ \E i \in DOMAIN last.arg.rows : ~isna(last.arg.rows[i]["start"])
    /\ "note" \in Columns(last.arg)
    /\ \E i \in DOMAIN last.arg.rows : ~isna(last.arg.rows[i]["note"])
    /\ last.result.cols = <<"start", "end", "duration">>

(***************************************************************************)
(* Calling filter_short_surveys again on the dataset it has written to.    *)
(***************************************************************************)
\* The dataset holds what a call leaves behind: a "duration" column and
\* converted stamps in place of the strings.
LeftByACall(df) ==
    /\ "duration" \in Columns(df)
    /\ \A i \in DOMAIN df.rows :
          /\ df.rows[i]["start"].tag \in {"datetime", "nat"}
          /\ df.rows[i]["end"].tag \in {"datetime", "nat"}

\* C12: once a call on a dataset has returned, every further call on the
\* same dataset with the same start and end columns returns the same rows
\* with the same durations: the next call returns what the last one did and
\* leaves the dataset as the last one left it, so the calls after it do too.
C12_RepeatedCallsReturnTheSame ==
    Returned("filter_short_surveys") =>
        LET again == filter_short_surveys(data, "start", "end")
        IN  /\ LeftByACall(data)
            /\ again.outcome = "ok"
            /\ again.result = last.result
            /\ again.df = data

\* C12 witness: a call has returned short surveys from a dataset that an
\* earlier call had already converted and given a "duration" column, one of
\* whose stamps did not parse.
C12_Witness ==
    /\ Returned("filter_short_surveys")
    /\ LeftByACall(last.arg)
    /\ last.arg = data
    /\ Len(last.result.rows) > 0
    /\ \E i \in DOMAIN last.arg.rows : isna(last.arg.rows[i]["duration"])

(***************************************************************************)
(* The order of the dashboard script's calls within one run.               *)
(***************************************************************************)
Entered(f) == \E k \in DOMAIN calls : calls[k] = f

\* C13: in every run of the script and for every sidebar selection, tracker
\* and data_quality_review are entered only after load_data has run in that
\* run; data_quality_review is never entered while dataset_load is None,
\* and never under the "Home" selection.
C13_ReviewOnlyAfterLoad ==
    /\ \A k \in DOMAIN calls :
          calls[k] \in {"tracker", "data_quality_review"} =>
              \E j \in 1..(k - 1) : calls[j] = "load_data"
    /\ Entered("data_quality_review") =>
          /\ dataset_load # None
          /\ selected_option # "Home"
    /\ last.outcome # "AttributeError"
    /\ selected_option = "Home" => ~Entered("tracker") /\ ~Entered("load_data")

\* C13 witness: a run under the "Data" selection has ended after load_data,
\* tracker and data_quality_review, in that order, on a loaded dataset.
C13_Witness ==
    /\ pc = "done"
    /\ selected_option = "Data"
    /\ calls = <<"load_data", "tracker", "data_quality_review">>
    /\ dataset_load # None
    /\ short_survey_data # None
=============================================================================
